---- MODULE Spec2Model ----
(***************************************************************************)
(* A model of the camera capture page (src/app/page.tsx, CameraPage) and   *)
(* of the relay endpoint behind it (src/app/api/analyze/route.ts, POST).   *)
(*                                                                         *)
(* Text is modelled character by character with TLA+ strings: the event    *)
(* stream is the string of characters the relay writes, a network read     *)
(* delivers a non-empty prefix of what is left of it, and the page decodes *)
(* each read as the code does (split on "\n", test the "data: " marker,    *)
(* JSON.parse the remainder).  All text is ASCII, so TextEncoder and       *)
(* TextDecoder map one character to one byte and back.                     *)
(***************************************************************************)
EXTENDS Integers, Sequences, FiniteSets, TLC

(***************************************************************************)
(* Strings, as JavaScript's String methods compute them.                   *)
(***************************************************************************)

\* s.startsWith(p)
StartsWith(s, p) == Len(s) >= Len(p) /\ SubSeq(s, 1, Len(p)) = p

\* s.slice(n)
Slice(s, n) == SubSeq(s, n + 1, Len(s))

\* The index of the first occurrence of the character c in s at or after
\* position i, or 0 when there is none.
RECURSIVE IndexFrom(_, _, _)
IndexFrom(s, c, i) ==
    IF i > Len(s) THEN 0
    ELSE IF SubSeq(s, i, i) = c THEN i
    ELSE IndexFrom(s, c, i + 1)

\* s.split(c) for a one-character separator c: the pieces between the
\* separators, in order; a string without the separator is one piece and
\* a trailing separator leaves a last empty piece.
RECURSIVE Split(_, _)
Split(s, c) ==
    LET i == IndexFrom(s, c, 1)
    IN  IF i = 0 THEN <<s>>
        ELSE <<SubSeq(s, 1, i - 1)>> \o Split(Slice(s, i), c)

(***************************************************************************)
(* JSON, for the values that cross the wire.  The relay writes             *)
(* JSON.stringify({ text: chunk }); the page reads parsed.text of          *)
(* JSON.parse(data).                                                       *)
(***************************************************************************)

\* The characters of a JSON string literal for the text s, without the
\* enclosing quotes: a quote, a backslash and a line feed are escaped.
RECURSIVE JsonEscape(_)
JsonEscape(s) ==
    IF s = "" THEN ""
    ELSE LET c == SubSeq(s, 1, 1)
             e == IF c = "\"" THEN "\\\""
                  ELSE IF c = "\\" THEN "\\\\"
                  ELSE IF c = "\n" THEN "\\n"
                  ELSE c
         IN  e \o JsonEscape(Slice(s, 1))

\* JSON.stringify({ text: s })
JsonStringifyText(s) == "{\"text\":\"" \o JsonEscape(s) \o "\"}"

\* The text of the JSON string literal whose characters after the opening
\* quote start at position i of s and whose closing quote must be the last
\* character of s: ok is FALSE when s is no such literal (an unescaped
\* line feed, an unknown escape, a quote before the end, or no closing
\* quote at all).
RECURSIVE JsonStringBody(_, _, _)
JsonStringBody(s, i, acc) ==
    IF i > Len(s) THEN [ok |-> FALSE, text |-> ""]
    ELSE LET c == SubSeq(s, i, i)
         IN  IF c = "\"" THEN [ok |-> i = Len(s), text |-> acc]
             ELSE IF c = "\n" THEN [ok |-> FALSE, text |-> ""]
             ELSE IF c = "\\"
                  THEN LET d == SubSeq(s, i + 1, i + 1)
                       IN  IF d = "\"" \/ d = "\\"
                           THEN JsonStringBody(s, i + 2, acc \o d)
                           ELSE IF d = "n"
                           THEN JsonStringBody(s, i + 2, acc \o "\n")
                           ELSE [ok |-> FALSE, text |-> ""]
             ELSE JsonStringBody(s, i + 1, acc \o c)

\* JSON.parse(data) followed by the read of parsed.text.  ok says that the
\* parse returned an object with a string text field, text is that field.
\* The parse is modelled for the one shape of value the relay writes, an
\* object with the single key "text" and no white space; every other string
\* on the wire of this model ("not-json", "", a cut-off frame) is no JSON
\* value at all, for which JSON.parse throws.
JsonParseText(data) ==
    LET open == "{\"text\":\""
    IN  IF StartsWith(data, open) /\ Len(data) >= Len(open) + 2
           /\ SubSeq(data, Len(data), Len(data)) = "}"
        THEN JsonStringBody(SubSeq(data, 1, Len(data) - 1), Len(open) + 1, "")
        ELSE [ok |-> FALSE, text |-> ""]

(***************************************************************************)
(* The wire format.                                                        *)
(***************************************************************************)

\* The marker that starts a data line.
DataMarker == "data: "

\* The terminal marker.
DoneMarker == "[DONE]"

\* The frame the relay writes for one upstream text delta.
TextFrame(chunk) == DataMarker \o JsonStringifyText(chunk) \o "\n\n"

\* The frame the relay writes when the upstream stream has ended.
DoneFrame == DataMarker \o DoneMarker \o "\n\n"

\* The loop with fullText = parsed.text in place of fullText += parsed.text.
RECURSIVE ProcessLinesOverwrite(_, _)
ProcessLinesOverwrite(lines, fullText) ==
    IF lines = <<>> THEN fullText
    ELSE LET line == Head(lines)
             data == Slice(line, Len(DataMarker))
             parsed == JsonParseText(data)
         IN  IF ~StartsWith(line, DataMarker)
             THEN ProcessLinesOverwrite(Tail(lines), fullText)
             ELSE IF data = DoneMarker THEN fullText
             ELSE IF parsed.ok /\ parsed.text # ""
             THEN ProcessLinesOverwrite(Tail(lines), parsed.text)
             ELSE ProcessLinesOverwrite(Tail(lines), fullText)

\* The loop without the try around JSON.parse: a remainder that does not
\* parse ends the handling of the read's lines.
RECURSIVE ProcessLinesStopOnMalformed(_, _)
ProcessLinesStopOnMalformed(lines, fullText) ==
    IF lines = <<>> THEN fullText
    ELSE LET line == Head(lines)
             data == Slice(line, Len(DataMarker))
             parsed == JsonParseText(data)
         IN  IF ~StartsWith(line, DataMarker)
             THEN ProcessLinesStopOnMalformed(Tail(lines), fullText)
             ELSE IF data = DoneMarker THEN fullText
             ELSE IF ~parsed.ok THEN fullText
             ELSE IF parsed.text # ""
             THEN ProcessLinesStopOnMalformed(Tail(lines), fullText \o parsed.text)
             ELSE ProcessLinesStopOnMalformed(Tail(lines), fullText)

\* The body of the page's loop over the lines of one read: fullText after
\* the lines from the first on have been handled.  A data line holding the
\* terminal marker ends the loop over this read's lines; a data line whose
\* remainder does not parse, or parses to an empty text, is passed over;
\* so is a line without the marker.
RECURSIVE ProcessLines(_, _)
ProcessLines(lines, fullText) ==
    IF lines = <<>> THEN fullText
    ELSE LET line == Head(lines)
             data == Slice(line, Len(DataMarker))
             parsed == JsonParseText(data)
         IN  IF ~StartsWith(line, DataMarker)
             THEN ProcessLines(Tail(lines), fullText)
             ELSE IF data = DoneMarker THEN fullText
             ELSE IF parsed.ok /\ parsed.text # ""
             THEN ProcessLines(Tail(lines), fullText \o parsed.text)
             ELSE ProcessLines(Tail(lines), fullText)

\* fullText after one read's chunk has been decoded and handled.
ProcessChunk(chunk, fullText) == ProcessLines(Split(chunk, "\n"), fullText)

(***************************************************************************)
(* The page: CameraPage of src/app/page.tsx.                               *)
(***************************************************************************)

\* The number of user actions (capture triggers and clicks on the switch
\* button) in a run.
MaxUserActions == 3

\* JavaScript's null, for the state that holds a string or null.
Null == "<null>"

\* The deltas of the upstream answers of this model: the two-delta answer
\* of the specification's example, and one whose deltas hold a quote, a
\* backslash, a line feed and an empty text.
Answers == { <<"Hel", "lo">>, <<"a\"", "", "\\\n">> }

\* The in-order concatenation of the deltas ds.
RECURSIVE Concat(_)
Concat(ds) == IF ds = <<>> THEN "" ELSE Head(ds) \o Concat(Tail(ds))

\* What the relay writes for the deltas ds up to and including the
\* terminal frame.
RECURSIVE TextFrames(_)
TextFrames(ds) ==
    IF ds = <<>> THEN "" ELSE TextFrame(Head(ds)) \o TextFrames(Tail(ds))

RelayBody(ds) == TextFrames(ds) \o DoneFrame

\* A data line that is no JSON.
MalformedFrame == DataMarker \o "not-json" \o "\n\n"

\* The response bodies the page is given.  deltas are the texts whose
\* frames the body holds, in order; relay says that the body is one the
\* relay writes for an answer that ended well; end is how the stream ends
\* once its bytes are read: "close" (done) or "error" (the read rejects).
Bodies ==
    { [bytes |-> RelayBody(ds), deltas |-> ds, relay |-> TRUE, end |-> "close"]
        : ds \in Answers }
    \cup
    { [bytes |-> TextFrame("a") \o MalformedFrame \o TextFrame("b") \o DoneFrame,
       deltas |-> <<"a", "b">>, relay |-> FALSE, end |-> "close"],
      [bytes |-> TextFrame("Hel"),
       deltas |-> <<"Hel">>, relay |-> FALSE, end |-> "error"],
      [bytes |-> TextFrame("a") \o DoneFrame \o TextFrame("x"),
       deltas |-> <<"a", "x">>, relay |-> FALSE, end |-> "close"] }

\* The error bodies of the relay's JSON answers; "" stands for an answer
\* without an error field.
ErrorBodies == { "API key not configured", "" }

\* The facing modes.
FacingModes == { "environment", "user" }

VARIABLES
    phase,          \* "new": rendered, effects not yet run; "mounted"; "unmounted"
    stream,         \* state stream: the id of a media stream, 0 for null
    effectStream,   \* the stream the committed cleanup effect closes over
    cameraReady,    \* state cameraReady
    facingMode,     \* state facingMode
    calls,          \* the initCamera calls in order: the facing asked for and
                    \* what getUserMedia gave ("pending", "stream", "failed");
                    \* the stream a call acquires has the call's index as id
    stopped,        \* the ids of the streams whose tracks are stopped
    srcObject,      \* videoRef.current.srcObject: a stream id, 0 for none
    metaPending,    \* a loadedmetadata event is due for srcObject
    switches,       \* the clicks on the switch button so far
    clicks,         \* the capture triggers so far
    reqs,           \* the calls of analyzeImage, in the order they started
    abortControllerRef, \* abortControllerRef.current: an index of reqs, 0 for null
    response,       \* state response
    loading,        \* state loading
    error,          \* state error
    transport,      \* how the network cuts a body into reads: "frames" (at
                    \* frame ends only), "bytes" (anywhere) or "whole" (the
                    \* body in one read)
    video,          \* videoWidth and videoHeight of the video element once
                    \* its metadata is loaded
    canvas,         \* the canvas element: its size, and whether the frame
                    \* drawn on it is mirrored
    relay           \* one call of the relay's POST: its inputs, its position
                    \* and what it has answered and written so far

cameraVars == <<stream, effectStream, cameraReady, facingMode, calls,
                stopped, srcObject, metaPending, switches>>

requestVars == <<clicks, reqs, abortControllerRef, response, loading, error>>

pageVars == <<phase, cameraVars, requestVars, transport, video, canvas>>

vars == <<pageVars, relay>>

\* A state setter of React: an update of a component that is no longer
\* mounted is dropped.
SetState(new, old) == IF phase = "mounted" THEN new ELSE old

\* The body of a request that has no response yet.
NoBody == [bytes |-> "", deltas |-> <<>>, relay |-> FALSE, end |-> "close"]

\* The relay before a request has come in.
RelayIdle ==
    [pc |-> "idle", image |-> "", keySet |-> FALSE, callFails |-> FALSE,
     events |-> <<>>, outcome |-> "end", script |-> <<>>,
     status |-> 0, json |-> "", streamState |-> "none", emitted |-> <<>>,
     prefixParsed |-> FALSE, upstreamCalled |-> FALSE,
     base64Image |-> "", mediaType |-> ""]

\* The size initCamera asks getUserMedia for, which is the size of the
\* frames in the runs that do not vary it.
IdealSize == [width |-> 4096, height |-> 3072]

\* The native frame sizes of the runs that vary it: landscape and portrait
\* above the bound, a square above it, sizes at the bound and one pixel
\* above it, a size below it, sizes whose scaled side falls on a half, and
\* sizes a pixel wide or high whose scaled side is a half and less than a
\* half.
FrameSizes ==
    { IdealSize,
      [width |-> 3072, height |-> 4096],
      [width |-> 2000, height |-> 2000],
      [width |-> 1920, height |-> 1080],
      [width |-> 1080, height |-> 1920],
      [width |-> 1921, height |-> 1080],
      [width |-> 640, height |-> 480],
      [width |-> 2560, height |-> 1438],
      [width |-> 1, height |-> 3840],
      [width |-> 4096, height |-> 1] }

\* The canvas before anything is drawn on it.
NoCanvas == [width |-> 0, height |-> 0, mirrored |-> FALSE]

\* The page after its first render, before any effect has run.
InitPage ==
    /\ phase = "new"
    /\ stream = 0
    /\ effectStream = 0
    /\ cameraReady = FALSE
    /\ facingMode = "environment"
    /\ calls = <<>>
    /\ stopped = {}
    /\ srcObject = 0
    /\ metaPending = FALSE
    /\ switches = 0
    /\ clicks = 0
    /\ reqs = <<>>
    /\ abortControllerRef = 0
    /\ response = Null
    /\ loading = FALSE
    /\ error = Null
    /\ canvas = NoCanvas
    /\ relay = RelayIdle

\* The start of a run whose reads end at frame ends.
Init == InitPage /\ transport = "frames" /\ video = IdealSize

\* The start of a run whose reads are cut anywhere.
InitBytes == InitPage /\ transport = "bytes" /\ video = IdealSize

\* The start of a run whose camera delivers frames of one of the sizes of
\* FrameSizes, and whose bodies arrive in one read each.
InitSizes == InitPage /\ transport = "whole" /\ video \in FrameSizes

(***************************************************************************)
(* The camera.                                                             *)
(***************************************************************************)

\* stream.getTracks().forEach(track => track.stop()) when st is a stream.
StopTracks(st, set) == IF st # 0 THEN set \cup {st} ELSE set

\* abortControllerRef.current.abort() when the ref holds a controller: the
\* signal of that request's controller becomes aborted.
AbortCurrent(rs, ref) ==
    IF ref # 0 THEN [rs EXCEPT ![ref].aborted = TRUE] ELSE rs

\* initCamera(facing) up to its await: the tracks of the stream of the last
\* render are stopped, cameraReady is cleared and getUserMedia is pending.
InitCamera(facing) ==
    /\ stopped' = StopTracks(stream, stopped)
    /\ cameraReady' = SetState(FALSE, cameraReady)
    /\ calls' = Append(calls, [facing |-> facing, got |-> "pending"])

\* The mount effect: initCamera(facingMode).
Mount ==
    /\ phase = "new"
    /\ phase' = "mounted"
    /\ InitCamera(facingMode)
    /\ UNCHANGED <<stream, effectStream, facingMode, srcObject, metaPending,
                   switches, requestVars, transport, video, canvas, relay>>

\* The passive effects of a render are flushed before React handles the
\* next click, and the component unmounts with its effects flushed.
EffectsFlushed == effectStream = stream

\* The user has actions left in this run: MaxUserActions of them in the
\* runs whose reads end at frame ends, two in the others.
UserMayAct ==
    clicks + switches < (IF transport = "frames" THEN MaxUserActions ELSE 2)

\* switchCamera, on a click on the switch button.
SwitchCamera ==
    /\ phase = "mounted"
    /\ EffectsFlushed
    /\ UserMayAct
    /\ switches' = switches + 1
    /\ LET newFacing == IF facingMode = "environment" THEN "user"
                        ELSE "environment"
       IN  /\ facingMode' = newFacing
           /\ InitCamera(newFacing)
    /\ UNCHANGED <<phase, stream, effectStream, srcObject, metaPending,
                   requestVars, transport, video, canvas, relay>>

\* getUserMedia resolves for call c: initCamera goes on after its await.
\* The video element is there while the component is mounted.
GetUserMediaResolves(c) ==
    /\ calls[c].got = "pending"
    /\ calls' = [calls EXCEPT ![c].got = "stream"]
    /\ stream' = SetState(c, stream)
    /\ IF phase = "mounted"
       THEN srcObject' = c /\ metaPending' = TRUE
       ELSE UNCHANGED <<srcObject, metaPending>>
    /\ UNCHANGED <<phase, effectStream, cameraReady, facingMode, stopped,
                   switches, requestVars, transport, video, canvas, relay>>

\* getUserMedia rejects for call c: the catch of initCamera.
GetUserMediaRejects(c) ==
    /\ calls[c].got = "pending"
    /\ calls' = [calls EXCEPT ![c].got = "failed"]
    /\ error' = SetState("Could not access camera", error)
    /\ UNCHANGED <<phase, stream, effectStream, cameraReady, facingMode,
                   stopped, srcObject, metaPending, switches, clicks, reqs,
                   abortControllerRef, response, loading, transport, video, canvas, relay>>

\* The video element's loadedmetadata event: the handler initCamera set.
LoadedMetadata ==
    /\ phase = "mounted"
    /\ metaPending
    /\ metaPending' = FALSE
    /\ cameraReady' = TRUE
    /\ UNCHANGED <<phase, stream, effectStream, facingMode, calls, stopped,
                   srcObject, switches, requestVars, transport, video, canvas, relay>>

\* The cleanup of the effect on [stream], run because stream has changed:
\* it stops the stream it closes over and aborts the current controller.
StreamEffectCleanup ==
    /\ phase = "mounted"
    /\ ~EffectsFlushed
    /\ stopped' = StopTracks(effectStream, stopped)
    /\ reqs' = AbortCurrent(reqs, abortControllerRef)
    /\ effectStream' = stream
    /\ UNCHANGED <<phase, stream, cameraReady, facingMode, calls, srcObject,
                   metaPending, switches, clicks, abortControllerRef,
                   response, loading, error, transport, video, canvas, relay>>

\* The component unmounts: the same cleanup, for the last time.
Unmount ==
    /\ phase = "mounted"
    /\ EffectsFlushed
    /\ phase' = "unmounted"
    /\ stopped' = StopTracks(effectStream, stopped)
    /\ reqs' = AbortCurrent(reqs, abortControllerRef)
    /\ UNCHANGED <<stream, effectStream, cameraReady, facingMode, calls,
                   srcObject, metaPending, switches, clicks,
                   abortControllerRef, response, loading, error, transport, video, canvas, relay>>

\* A timer that resets the request's flags along with the error.
ErrorTimeoutResetting ==
    /\ phase = "mounted"
    /\ error # Null
    /\ error' = Null
    /\ loading' = FALSE
    /\ response' = Null
    /\ UNCHANGED <<phase, cameraVars, clicks, reqs, abortControllerRef,
                   transport, video, canvas, relay>>

\* The timer of the effect on [error]: setError(null) after 4000 ms.
ErrorTimeout ==
    /\ phase = "mounted"
    /\ error # Null
    /\ error' = Null
    /\ UNCHANGED <<phase, cameraVars, clicks, reqs, abortControllerRef,
                   response, loading, transport, video, canvas, relay>>

(***************************************************************************)
(* Capture and the request: capturePhoto and analyzeImage.                 *)
(***************************************************************************)

\* The runs whose reads are cut anywhere have one capture.
ClickBound == IF transport = "bytes" THEN 1 ELSE MaxUserActions

\* capturePhoto without the test of cameraReady.
CanCaptureAlways == TRUE

\* The guard of capturePhoto.  The video and the canvas element are there
\* while the component is mounted.
CanCapture == cameraReady

\* MAX_SIZE of capturePhoto.
MAX_SIZE == 1920

\* Math.round(n / d) for integers n >= 0 and d > 0: the nearest integer,
\* a half going up.
Round(n, d) == (2 * n + d) \div (2 * d)

\* Scaling that drops the fraction in place of Math.round.
CanvasSizeTruncated(width, height) ==
    IF width > MAX_SIZE \/ height > MAX_SIZE
    THEN IF width > height
         THEN [width |-> MAX_SIZE, height |-> (height * MAX_SIZE) \div width]
         ELSE [width |-> (width * MAX_SIZE) \div height, height |-> MAX_SIZE]
    ELSE [width |-> width, height |-> height]

\* The width and height capturePhoto gives the canvas for a video of
\* width x height.
CanvasSize(width, height) ==
    IF width > MAX_SIZE \/ height > MAX_SIZE
    THEN IF width > height
         THEN [width |-> MAX_SIZE, height |-> Round(height * MAX_SIZE, width)]
         ELSE [width |-> Round(width * MAX_SIZE, height), height |-> MAX_SIZE]
    ELSE [width |-> width, height |-> height]

\* capturePhoto mirroring whatever the facing mode.
MirroredAlways(facing) == TRUE

\* Whether capturePhoto flips the context before it draws.  (Setting the
\* canvas size resets the context, so a flip does not outlast its
\* capture.)
Mirrored(facing) == facing = "user"

\* A request as analyzeImage starts it: its own controller (aborted is the
\* controller's signal.aborted), waiting for fetch.
NewRequest ==
    [pc |-> "fetch", aborted |-> FALSE, body |-> NoBody, rest |-> "",
     fullText |-> "", errorBody |-> ""]

\* A request whose call of analyzeImage has returned: its locals are gone,
\* its controller is left with its signal.
Returned(req) == [NewRequest EXCEPT !.pc = "done", !.aborted = req.aborted]

\* capturePhoto, on a capture trigger.  Not ready: it returns.  Ready: it
\* aborts the controller of the ref, draws and encodes the frame, and calls
\* analyzeImage, which runs up to its first await: a new controller is put
\* in the ref, loading is set, error and response are reset, and fetch is
\* called with the new controller's signal.
CapturePhoto ==
    /\ phase = "mounted"
    /\ EffectsFlushed
    /\ UserMayAct
    /\ clicks < ClickBound
    /\ clicks' = clicks + 1
    /\ IF ~CanCapture
       THEN UNCHANGED <<reqs, abortControllerRef, response, loading, error,
                        canvas>>
       ELSE /\ reqs' = Append(AbortCurrent(reqs, abortControllerRef), NewRequest)
            /\ abortControllerRef' = Len(reqs) + 1
            /\ LET size == CanvasSize(video.width, video.height)
               IN  canvas' = [width |-> size.width, height |-> size.height,
                              mirrored |-> Mirrored(facingMode)]
            /\ loading' = TRUE
            /\ error' = Null
            /\ response' = ""
    /\ UNCHANGED <<phase, cameraVars, transport, video, relay>>

\* The catch without the test for an AbortError.
IsAbortErrorNever(name) == FALSE

\* A catch that returns without reporting whatever the error.
IsAbortErrorAlways(name) == TRUE

\* Whether the catch of analyzeImage returns without reporting.
IsAbortError(name) == name = "AbortError"

\* The catch of analyzeImage for request r and an error of that name and
\* message; the function returns.
Catch(r, name, message) ==
    /\ reqs' = [reqs EXCEPT ![r] = Returned(reqs[r])]
    /\ IF IsAbortError(name)
       THEN UNCHANGED <<error, loading>>
       ELSE /\ error' = SetState(message, error)
            /\ loading' = SetState(FALSE, loading)
    /\ UNCHANGED <<clicks, abortControllerRef, response>>

\* The await of fetch ends for request r.  With the signal aborted it
\* rejects with an AbortError.  Otherwise the network fails, or the relay
\* answers with an error status, or with a response without a body, or with
\* a body to read.
FetchSettles(r) ==
    /\ reqs[r].pc = "fetch"
    /\ \/ /\ reqs[r].aborted
          /\ Catch(r, "AbortError", "The operation was aborted.")
       \/ /\ ~reqs[r].aborted
          /\ Catch(r, "TypeError", "Failed to fetch")
       \/ /\ ~reqs[r].aborted
          /\ \E e \in ErrorBodies :
               reqs' = [reqs EXCEPT ![r].pc = "json", ![r].errorBody = e]
          /\ UNCHANGED <<clicks, abortControllerRef, response, loading, error>>
       \/ /\ ~reqs[r].aborted
          /\ Catch(r, "Error", "No response body")
       \/ /\ ~reqs[r].aborted
          /\ \E b \in Bodies :
               reqs' = [reqs EXCEPT ![r].pc = "read", ![r].body = b,
                                    ![r].rest = b.bytes]
          /\ UNCHANGED <<clicks, abortControllerRef, response, loading, error>>
    /\ UNCHANGED <<phase, cameraVars, transport, video, canvas, relay>>

\* The await of res.json() ends for request r, whose response was not ok:
\* an AbortError with the signal aborted, else the error that is thrown
\* with data.error || 'Failed to analyze image'.
JsonSettles(r) ==
    /\ reqs[r].pc = "json"
    /\ IF reqs[r].aborted
       THEN Catch(r, "AbortError", "The operation was aborted.")
       ELSE Catch(r, "Error", IF reqs[r].errorBody # "" THEN reqs[r].errorBody
                              ELSE "Failed to analyze image")
    /\ UNCHANGED <<phase, cameraVars, transport, video, canvas, relay>>

\* The lengths a read of the unread bytes rest can have.
Cuts(rest) ==
    IF transport = "frames"
    THEN { k \in 2..Len(rest) : SubSeq(rest, k - 1, k) = "\n\n" }
    ELSE IF transport = "bytes" THEN 1..Len(rest)
    ELSE { k \in 1..Len(rest) : k = Len(rest) }

\* The read loop without the test of the signal.
AbortedAfterReadNever(r) == FALSE

\* The test of the signal after a read has returned a value.
AbortedAfterRead(r) == reqs[r].aborted

\* The end of analyzeImage without the test of the signal.
AbortedAfterLoopNever(r) == FALSE

\* The test of the signal after the read loop.
AbortedAfterLoop(r) == reqs[r].aborted

\* reader.read() returns a value of k characters for request r.  With the
\* signal aborted the reader is cancelled and the loop left; else the chunk
\* is decoded and its lines handled, response being set with every append.
\* (A read that was already fulfilled when the controller was aborted
\* still returns its value: the test of the signal is there for it.)
ReadReturnsValue(r, k) ==
    /\ reqs[r].pc = "read"
    /\ IF AbortedAfterRead(r)
       THEN /\ reqs' = [reqs EXCEPT ![r] = Returned(reqs[r])]
            /\ loading' = IF AbortedAfterLoop(r) THEN loading
                          ELSE SetState(FALSE, loading)
            /\ UNCHANGED response
       ELSE LET chunk == SubSeq(reqs[r].rest, 1, k)
                text == ProcessChunk(chunk, reqs[r].fullText)
            IN  /\ reqs' = [reqs EXCEPT ![r].rest = Slice(reqs[r].rest, k),
                                        ![r].fullText = text]
                /\ response' = IF text # reqs[r].fullText
                               THEN SetState(text, response) ELSE response
                /\ UNCHANGED loading
    /\ UNCHANGED <<phase, cameraVars, clicks, abortControllerRef, error,
                   transport, video, canvas, relay>>

\* reader.read() returns done for request r, the body being read to its
\* end: the loop is left and loading cleared unless the signal is aborted.
ReadReturnsDone(r) ==
    /\ reqs[r].pc = "read"
    /\ reqs[r].rest = ""
    /\ reqs[r].body.end = "close"
    /\ reqs' = [reqs EXCEPT ![r] = Returned(reqs[r])]
    /\ loading' = IF AbortedAfterLoop(r) THEN loading
                  ELSE SetState(FALSE, loading)
    /\ UNCHANGED <<phase, cameraVars, clicks, abortControllerRef, response,
                   error, transport, video, canvas, relay>>

\* reader.read() rejects for request r: with an AbortError once the signal
\* is aborted, with the stream's error when the body ends in one.
ReadRejects(r) ==
    /\ reqs[r].pc = "read"
    /\ \/ /\ reqs[r].aborted
          /\ Catch(r, "AbortError", "The operation was aborted.")
       \/ /\ ~reqs[r].aborted
          /\ reqs[r].rest = ""
          /\ reqs[r].body.end = "error"
          /\ Catch(r, "TypeError", "network error")
    /\ UNCHANGED <<phase, cameraVars, transport, video, canvas, relay>>

Next ==
    \/ Mount
    \/ SwitchCamera
    \/ \E c \in DOMAIN calls : GetUserMediaResolves(c)
    \/ \E c \in DOMAIN calls : GetUserMediaRejects(c)
    \/ LoadedMetadata
    \/ StreamEffectCleanup
    \/ Unmount
    \/ ErrorTimeout
    \/ CapturePhoto
    \/ \E r \in DOMAIN reqs : FetchSettles(r)
    \/ \E r \in DOMAIN reqs : JsonSettles(r)
    \/ \E r \in DOMAIN reqs : \E k \in Cuts(reqs[r].rest) : ReadReturnsValue(r, k)
    \/ \E r \in DOMAIN reqs : ReadReturnsDone(r)
    \/ \E r \in DOMAIN reqs : ReadRejects(r)

Spec == Init /\ [][Next]_vars

SpecBytes == InitBytes /\ [][Next]_vars

SpecSizes == InitSizes /\ [][Next]_vars

\* The runs in which time passes: a timer that stays set fires.  (The
\* effect on [error] sets the timer whenever error is set and clears it
\* only when error changes or the component unmounts.)
SpecTimed == Init /\ [][Next]_vars /\ WF_vars(ErrorTimeout)

(***************************************************************************)
(* The relay: POST of src/app/api/analyze/route.ts.                        *)
(***************************************************************************)

\* The image field of a body that has none.
Undefined == "<undefined>"

\* The image fields of the requests of this model.
Images ==
    { Undefined, "", "AAAA", "data:image/png;base64,AAAA",
      "data:image/jpeg;base64,/9j/", "data:image/bmp;base64,Qk0=",
      "data:image/svg+xml;base64,PHN2" }

\* The events of the upstream stream: a text delta, a delta of another
\* kind, and events that are no delta.
TextDelta(t) == [type |-> "content_block_delta", delta |-> "text_delta", text |-> t]
JsonDelta == [type |-> "content_block_delta", delta |-> "input_json_delta", text |-> ""]
MessageStart == [type |-> "message_start", delta |-> "", text |-> ""]
MessageStop == [type |-> "message_stop", delta |-> "", text |-> ""]

\* What the upstream does in the runs of this model: the events it
\* produces, and whether its stream then ends or fails.
Scripts ==
    { [events |-> <<MessageStart, TextDelta("Hel"), JsonDelta, TextDelta("lo"),
                    MessageStop>>, outcome |-> "end"],
      [events |-> <<MessageStart, TextDelta("a\""), TextDelta(""),
                    TextDelta("\\\n"), MessageStop>>, outcome |-> "end"],
      [events |-> <<MessageStart, MessageStop>>, outcome |-> "end"],
      [events |-> <<MessageStart, TextDelta("Hel")>>, outcome |-> "error"],
      [events |-> <<>>, outcome |-> "error"] }

\* The message of an upstream failure.
UpstreamMessage == "upstream failure"

\* JSON.stringify({ error: message })
JsonStringifyError(message) == "{\"error\":\"" \o JsonEscape(message) \o "\"}"

\* image === undefined in place of !image.
ImageMissingUndefinedOnly(image) == image = Undefined

\* !image
ImageMissing(image) == image = Undefined \/ image = ""

\* The relay without the test of the credential.
KeyConfiguredAlways(keySet) == TRUE

\* process.env.ANTHROPIC_API_KEY, as a truth value
KeyConfigured(keySet) == keySet

\* The characters \w of a regular expression matches.
WordChars == "abcdefghijklmnopqrstuvwxyzABCDEFGHIJKLMNOPQRSTUVWXYZ0123456789_"

\* The length of the longest run of \w characters of s that starts at i.
RECURSIVE WordRun(_, _)
WordRun(s, i) ==
    IF i <= Len(s) /\ IndexFrom(WordChars, SubSeq(s, i, i), 1) # 0
    THEN 1 + WordRun(s, i + 1)
    ELSE 0

\* The length of the match of /^data:image\/\w+;base64,/ in image, 0 when
\* there is none.  (";" is no \w character, so the longest run is the only
\* candidate for \w+.)
PrefixLength(image) ==
    LET head == "data:image/"
        tail == ";base64,"
        n == WordRun(image, Len(head) + 1)
        end == Len(head) + n + Len(tail)
    IN  IF StartsWith(image, head) /\ n >= 1 /\ end <= Len(image)
           /\ SubSeq(image, Len(head) + n + 1, end) = tail
        THEN end ELSE 0

\* The relay without the replace: the image is forwarded as it came.
Base64ImageKept(image) == image

\* image.replace(/^data:image\/\w+;base64,/, '')
Base64Image(image) == Slice(image, PrefixLength(image))

\* The group of image.match(/^data:(image\/\w+);base64,/), or 'image/jpeg'.
MediaType(image) ==
    IF PrefixLength(image) > 0
    THEN SubSeq(image, Len("data:") + 1, PrefixLength(image) - Len(";base64,"))
    ELSE "image/jpeg"

\* The test without event.delta.type === 'text_delta'.
IsAnyDelta(event) == event.type = "content_block_delta"

\* The test of an upstream event for a text delta.
IsTextDelta(event) ==
    event.type = "content_block_delta" /\ event.delta = "text_delta"

\* A request comes in and request.json() gives its body.
RelayReceives ==
    /\ relay.pc = "idle"
    /\ \E image \in Images, keySet \in BOOLEAN, callFails \in BOOLEAN,
          sc \in Scripts :
         relay' = [relay EXCEPT !.pc = "checkImage", !.image = image,
                                !.keySet = keySet, !.callFails = callFails,
                                !.events = sc.events, !.outcome = sc.outcome,
                                !.script = sc.events]
    /\ UNCHANGED pageVars

\* if (!image): the 400 answer.
RelayChecksImage ==
    /\ relay.pc = "checkImage"
    /\ relay' = IF ImageMissing(relay.image)
                THEN [relay EXCEPT !.pc = "answered", !.status = 400,
                                   !.json = JsonStringifyError("No image provided")]
                ELSE [relay EXCEPT !.pc = "checkKey"]
    /\ UNCHANGED pageVars

\* if (!process.env.ANTHROPIC_API_KEY): the 500 answer.
RelayChecksKey ==
    /\ relay.pc = "checkKey"
    /\ relay' = IF ~KeyConfigured(relay.keySet)
                THEN [relay EXCEPT !.pc = "answered", !.status = 500,
                                   !.json = JsonStringifyError("API key not configured")]
                ELSE [relay EXCEPT !.pc = "parsePrefix"]
    /\ UNCHANGED pageVars

\* The prefix is removed and the media type read from it.
RelayParsesPrefix ==
    /\ relay.pc = "parsePrefix"
    /\ relay' = [relay EXCEPT !.pc = "callUpstream", !.prefixParsed = TRUE,
                              !.base64Image = Base64Image(relay.image),
                              !.mediaType = MediaType(relay.image)]
    /\ UNCHANGED pageVars

\* anthropic.messages.stream(...) is called and awaited.  When it throws,
\* the outer catch answers 500 with the error's message.  Otherwise the
\* ReadableStream is made, its start runs up to the first event, and the
\* response is returned with the stream as its body (status 200).
RelayCallsUpstream ==
    /\ relay.pc = "callUpstream"
    /\ relay' = IF relay.callFails
                THEN [relay EXCEPT !.pc = "answered", !.upstreamCalled = TRUE,
                                   !.status = 500,
                                   !.json = JsonStringifyError(UpstreamMessage)]
                ELSE [relay EXCEPT !.pc = "streaming", !.upstreamCalled = TRUE,
                                   !.status = 200, !.streamState = "open"]
    /\ UNCHANGED pageVars

\* The next upstream event arrives in the for await loop of start.
RelayHandlesEvent ==
    /\ relay.pc = "streaming"
    /\ relay.events # <<>>
    /\ LET event == Head(relay.events)
       IN  relay' = [relay EXCEPT
                       !.events = Tail(relay.events),
                       !.emitted = IF IsTextDelta(event)
                                   THEN Append(relay.emitted, TextFrame(event.text))
                                   ELSE relay.emitted]
    /\ UNCHANGED pageVars

\* The upstream stream ends: the terminal frame is written and the
\* stream closed.
RelayEnds ==
    /\ relay.pc = "streaming"
    /\ relay.events = <<>>
    /\ relay.outcome = "end"
    /\ relay' = [relay EXCEPT !.pc = "finished", !.streamState = "closed",
                              !.emitted = Append(relay.emitted, DoneFrame)]
    /\ UNCHANGED pageVars

\* A catch of start that ends the stream as if the answer were complete.
RelayFailsClosing ==
    /\ relay.pc = "streaming"
    /\ relay.events = <<>>
    /\ relay.outcome = "error"
    /\ relay' = [relay EXCEPT !.pc = "finished", !.streamState = "closed",
                              !.emitted = Append(relay.emitted, DoneFrame)]
    /\ UNCHANGED pageVars

\* The upstream stream fails: the catch of start errors the stream.
RelayFails ==
    /\ relay.pc = "streaming"
    /\ relay.events = <<>>
    /\ relay.outcome = "error"
    /\ relay' = [relay EXCEPT !.pc = "finished", !.streamState = "errored"]
    /\ UNCHANGED pageVars

NextRelay ==
    \/ RelayReceives
    \/ RelayChecksImage
    \/ RelayChecksKey
    \/ RelayParsesPrefix
    \/ RelayCallsUpstream
    \/ RelayHandlesEvent
    \/ RelayEnds
    \/ RelayFails

SpecRelay == Init /\ [][NextRelay]_vars

(***************************************************************************)
(* The properties.                                                         *)
(***************************************************************************)

\* A request is in flight from the call of fetch to the return of
\* analyzeImage.
InFlight(r) == reqs[r].pc # "done"

\* C1: cancel-and-replace.  Once a later request has started, every
\* earlier request's controller is aborted (capturePhoto aborts the
\* controller of the ref in the step that issues the new fetch), and no
\* step of an earlier request, whatever it still receives, changes the
\* displayed response.
CancelAndReplace ==
    /\ [](\A a \in DOMAIN reqs : a < Len(reqs) => reqs[a].aborted)
    /\ [][\A a \in DOMAIN reqs :
            (a < Len(reqs) /\ reqs'[a] # reqs[a]) => response' = response]_vars

\* C1, its case: request 1 was cut off in the middle of its stream, after
\* it had appended text, and request 2 has appended its own text since.
CancelledMidStream ==
    /\ Len(reqs) = 2
    /\ reqs[1].aborted /\ reqs[1].pc = "read"
    /\ reqs[1].fullText # "" /\ reqs[1].rest # ""
    /\ reqs[2].fullText # "" /\ response = reqs[2].fullText

\* C2: no stuck streaming state.  When every request has returned, so
\* that no request is left to change it, loading is false or the error
\* state is set.
NoStuckLoading ==
    (phase = "mounted" /\ \A r \in DOMAIN reqs : ~InFlight(r))
        => (~loading \/ error # Null)

\* C3: decoding does not depend on the read boundaries.  For every cut of
\* a body the relay writes, the accumulator of a request that is not
\* cancelled is, once the whole body is read, the concatenation of the
\* deltas.
ReadBoundaryIndependent ==
    \A r \in DOMAIN reqs :
        (reqs[r].pc = "read" /\ ~reqs[r].aborted /\ reqs[r].body.relay
         /\ reqs[r].rest = "")
            => reqs[r].fullText = Concat(reqs[r].body.deltas)

CancelSilent ==
    [][\A r \in DOMAIN reqs :
         (reqs[r].aborted /\ reqs'[r].pc # reqs[r].pc) => error' = error]_vars

\* C5, its case: the only request was aborted by the cleanup after it had
\* displayed the first of three deltas; it has returned and no error is
\* shown.
CancelledWithoutError ==
    /\ Len(reqs) = 1
    /\ reqs[1].aborted /\ reqs[1].pc = "done"
    /\ phase = "mounted" /\ response = "a\""
    /\ error = Null

\* The characters a step of request r has read.
ChunkRead(r) ==
    SubSeq(reqs[r].rest, 1, Len(reqs[r].rest) - Len(reqs'[r].rest))

\* C6: a data line that is no JSON is skipped.  A read that delivers just
\* that line changes neither the accumulator nor response, loading and
\* error, and the frames after it are still handled: the body
\* "a", not-json, "b", [DONE] is read to the accumulator "ab".
MalformedSkipped ==
    /\ [][\A r \in DOMAIN reqs :
            (reqs[r].pc = "read" /\ ~reqs[r].aborted
             /\ reqs'[r].rest # reqs[r].rest /\ ChunkRead(r) = MalformedFrame)
                => /\ reqs'[r].fullText = reqs[r].fullText
                   /\ reqs'[r].pc = "read"
                   /\ UNCHANGED <<response, loading, error>>]_vars
    /\ [](\A r \in DOMAIN reqs :
            (reqs[r].pc = "read" /\ ~reqs[r].aborted /\ reqs[r].rest = ""
             /\ StartsWith(reqs[r].body.bytes, TextFrame("a") \o MalformedFrame))
                => reqs[r].fullText = "ab" /\ response = "ab")

\* C6, its case: the body with the malformed line was read to its end.
MalformedPassed ==
    /\ Len(reqs) = 1 /\ reqs[1].pc = "done" /\ ~reqs[1].aborted
    /\ response = "ab" /\ ~loading /\ error = Null

\* C7: a capture trigger while cameraReady is false does nothing: no
\* request is started or aborted, and loading, response and error stay.
NotReadyNoOp ==
    [][(clicks' # clicks /\ ~cameraReady)
         => UNCHANGED <<reqs, abortControllerRef, loading, response, error>>]_vars

\* C7, its case: during a camera switch, with a request in flight, a
\* capture trigger has been ignored.
IgnoredCapture ==
    /\ ~cameraReady
    /\ clicks > Len(reqs)
    /\ \E c \in DOMAIN calls : c > 1 /\ calls[c].got = "pending"
    /\ \E r \in DOMAIN reqs : InFlight(r) /\ ~reqs[r].aborted

\* C8: a request without an image, or with an empty one, is answered 400
\* with the body {"error":"No image provided"}, whether or not the
\* credential is set, and the upstream is not called for it.
NoImageRejected ==
    (relay.pc # "idle" /\ (relay.image = Undefined \/ relay.image = "")) =>
        /\ relay.pc \in {"checkImage", "answered"}
        /\ ~relay.upstreamCalled
        /\ relay.pc = "answered" =>
             /\ relay.status = 400
             /\ relay.json = "{\"error\":\"No image provided\"}"

\* C8, its case: an empty image, with the credential set, has been answered.
EmptyImageAnswered ==
    /\ relay.pc = "answered" /\ relay.image = "" /\ relay.keySet
    /\ relay.status = 400

\* C9: a request with an image is answered 500 with the body
\* {"error":"API key not configured"} when the credential is not set,
\* before the prefix is parsed and before the upstream is called.
NoKeyRejected ==
    (relay.pc # "idle" /\ relay.image # Undefined /\ relay.image # ""
     /\ ~relay.keySet) =>
        /\ relay.pc \in {"checkImage", "checkKey", "answered"}
        /\ ~relay.prefixParsed
        /\ ~relay.upstreamCalled
        /\ relay.pc = "answered" =>
             /\ relay.status = 500
             /\ relay.json = "{\"error\":\"API key not configured\"}"

\* C9, its case: a prefixed image without the credential has been answered.
PrefixedImageWithoutKey ==
    /\ relay.pc = "answered" /\ relay.image = "data:image/png;base64,AAAA"
    /\ ~relay.keySet /\ relay.status = 500

\* The frames of the text deltas among events, in order.
RECURSIVE FramesOfTextDeltas(_)
FramesOfTextDeltas(events) ==
    IF events = <<>> THEN <<>>
    ELSE LET e == Head(events)
         IN  (IF e.type = "content_block_delta" /\ e.delta = "text_delta"
              THEN <<"data: " \o JsonStringifyText(e.text) \o "\n\n">>
              ELSE <<>>) \o FramesOfTextDeltas(Tail(events))

\* C10: for an upstream stream that ends well, what the relay has written
\* is at every moment a prefix of: one frame per text delta, in order,
\* then the terminal frame; the stream is closed exactly when all of it is
\* written, so the terminal frame is written once and is the last.
RelayFrameSequence ==
    (relay.streamState # "none" /\ relay.outcome = "end") =>
        LET want == FramesOfTextDeltas(relay.script) \o <<"data: [DONE]\n\n">>
        IN  /\ Len(relay.emitted) <= Len(want)
            /\ relay.emitted = SubSeq(want, 1, Len(relay.emitted))
            /\ (relay.streamState = "closed") = (relay.emitted = want)
            /\ relay.streamState \in {"open", "closed"}

\* C10, its case: the answer "Hel", "lo", with a delta of another kind
\* between the two, has been relayed and the stream closed.
HelloRelayed ==
    /\ relay.streamState = "closed"
    /\ relay.emitted = << "data: {\"text\":\"Hel\"}\n\n",
                          "data: {\"text\":\"lo\"}\n\n",
                          "data: [DONE]\n\n" >>

\* C11: when the upstream fails before any frame is written, the answer
\* is status 500 with the body {"error":<message>} and no event stream.
UpstreamFailureBeforeFramesIs500 ==
    (relay.upstreamCalled /\ relay.emitted = <<>>
     /\ (relay.pc = "answered" \/ relay.streamState = "errored")) =>
        /\ relay.status = 500
        /\ relay.streamState = "none"
        /\ relay.json = "{\"error\":\"upstream failure\"}"

\* C12: when the upstream stream fails after a frame has been written, the
\* terminal frame is never written and the stream is never closed: it
\* stays open until the failure and is errored from then on.
FailedStreamErrored ==
    (relay.streamState # "none" /\ relay.outcome = "error"
     /\ relay.emitted # <<>>) =>
        /\ \A i \in DOMAIN relay.emitted : relay.emitted[i] # "data: [DONE]\n\n"
        /\ relay.streamState \in {"open", "errored"}
        /\ (relay.pc = "finished") = (relay.streamState = "errored")

\* C12, its case: the upstream failed after the delta "Hel" was relayed.
HelThenErrored ==
    /\ relay.pc = "finished" /\ relay.streamState = "errored"
    /\ relay.emitted = << "data: {\"text\":\"Hel\"}\n\n" >>

\* The character of s at position i is one a regular expression's \w
\* matches.
IsWordCharAt(s, i) == IndexFrom(WordChars, SubSeq(s, i, i), 1) # 0

\* image begins with "data:image/", a type of n word characters and
\* ";base64,".
HasWordPrefix(image, n) ==
    /\ n >= 1
    /\ Len(image) >= Len("data:image/") + n + Len(";base64,")
    /\ SubSeq(image, 1, 11) = "data:image/"
    /\ \A i \in 12..(11 + n) : IsWordCharAt(image, i)
    /\ SubSeq(image, 12 + n, 19 + n) = ";base64,"

\* image begins with "data:image/", a type of n characters none of which
\* is ";", and ";base64,".
HasTypePrefix(image, n) ==
    /\ n >= 1
    /\ Len(image) >= Len("data:image/") + n + Len(";base64,")
    /\ SubSeq(image, 1, 11) = "data:image/"
    /\ \A i \in 12..(11 + n) : SubSeq(image, i, i) # ";"
    /\ SubSeq(image, 12 + n, 19 + n) = ";base64,"

MediaTypeInFixedSet ==
    relay.upstreamCalled =>
        relay.mediaType \in {"image/jpeg", "image/png", "image/gif", "image/webp"}

\* r is the integer nearest to n / d, a half going up.
IsNearest(r, n, d) == -d < 2 * r * d - 2 * n /\ 2 * r * d - 2 * n <= d

\* C15: the canvas of a capture.  For a frame whose longer side is above
\* 1920, the canvas's side along the frame's longer side is 1920 and its
\* other side is the frame's shorter side times 1920 over the longer side,
\* rounded to the nearest integer (a square frame gives 1920 x 1920); for
\* any other frame the canvas has the frame's size.
CaptureSized ==
    Len(reqs) > 0 =>
        LET w == video.width
            h == video.height
        IN  IF w > 1920 \/ h > 1920
            THEN IF w >= h
                 THEN /\ canvas.width = 1920
                      /\ IsNearest(canvas.height, h * 1920, w)
                 ELSE /\ canvas.height = 1920
                      /\ IsNearest(canvas.width, w * 1920, h)
            ELSE canvas.width = w /\ canvas.height = h

\* C15, its case: a frame of 2560 x 1438, whose height scales to 1078.5,
\* has been captured on a canvas of 1920 x 1079.
HalfRoundedUp ==
    /\ Len(reqs) > 0
    /\ video = [width |-> 2560, height |-> 1438]
    /\ canvas.width = 1920 /\ canvas.height = 1079

\* C16: the frame of a capture is drawn mirrored exactly when the facing
\* mode at the capture is "user".
MirroredIffUser ==
    [][Len(reqs') > Len(reqs) => (canvas'.mirrored <=> facingMode = "user")]_vars

\* C16, its case: after a switch to the front camera, a capture has been
\* drawn mirrored.
UserCaptureMirrored ==
    /\ switches = 1 /\ facingMode = "user"
    /\ Len(reqs) > 0 /\ canvas.mirrored

\* The acquired media streams whose tracks are not stopped.
LiveStreams == { c \in DOMAIN calls : calls[c].got = "stream" /\ c \notin stopped }

\* C17: at most one acquired media stream has tracks that are not stopped.
SingleStream == Cardinality(LiveStreams) <= 1

\* C18: once the component is unmounted and no getUserMedia call is
\* pending, every media stream that was acquired has its tracks stopped.
ReleasedAfterUnmount ==
    (phase = "unmounted" /\ \A c \in DOMAIN calls : calls[c].got # "pending")
        => LiveStreams = {}

\* C19: a click on the switch button is taken only when the camera is
\* ready and no request is in flight; cameraReady is false after it, and
\* becomes true only by the loadedmetadata event of a stream that was
\* acquired after the click.
SwitchOnlyReadyIdle ==
    /\ [][switches' # switches =>
            /\ cameraReady /\ \A r \in DOMAIN reqs : ~InFlight(r)
            /\ ~cameraReady']_vars
    /\ [][(~cameraReady /\ cameraReady') => srcObject = Len(calls)]_vars

\* C20: a request that is not cancelled and fails is reported.  The step
\* in which it fails (a response that is not ok, a failed fetch or a
\* response without a body, a read that rejects after the body's bytes)
\* sets the error state to a message, the relay's own for a response that
\* is not ok and has one, clears loading and leaves response, the text
\* accumulated so far, as it is; the step in which a request completes
\* clears loading and leaves the error state as it is.
FailureReported ==
    [][\A r \in DOMAIN reqs :
         (phase = "mounted" /\ ~reqs[r].aborted /\ InFlight(r)
          /\ reqs'[r].pc = "done") =>
            IF reqs[r].pc = "read" /\ reqs[r].body.end = "close"
            THEN ~loading' /\ error' = error /\ response' = response
            ELSE /\ error' # Null /\ error' # ""
                 /\ ~loading'
                 /\ response' = response
                 /\ (reqs[r].pc = "json" /\ reqs[r].errorBody # "") =>
                      error' = reqs[r].errorBody
                 /\ (reqs[r].pc = "json" /\ reqs[r].errorBody = "") =>
                      error' = "Failed to analyze image"]_vars

\* C20, its case: the only request displayed "Hel", its next read
\* rejected, and the page shows the text with an error and loading off.
HelThenReadFailed ==
    /\ Len(reqs) = 1 /\ reqs[1].pc = "done" /\ ~reqs[1].aborted
    /\ phase = "mounted"
    /\ response = "Hel" /\ error = "network error" /\ ~loading

\* The characters request r has read so far.
Consumed(r) ==
    SubSeq(reqs[r].body.bytes, 1, Len(reqs[r].body.bytes) - Len(reqs[r].rest))

\* The reads of request r so far hold the terminal frame.
DoneSeen(r) ==
    \E i \in 1..(Len(Consumed(r)) - Len("data: [DONE]\n\n") + 1) :
        SubSeq(Consumed(r), i, i + Len("data: [DONE]\n\n") - 1) = "data: [DONE]\n\n"

\* C21: once a request has handled the terminal frame, no step appends to
\* its accumulator, whether the frames after the terminal frame come in
\* the same read or in a later one.
NothingAfterDone ==
    /\ [][\A r \in DOMAIN reqs :
            (reqs[r].pc = "read" /\ DoneSeen(r) /\ reqs'[r].pc = "read")
                => reqs'[r].fullText = reqs[r].fullText]_vars
    /\ [](\A r \in DOMAIN reqs :
            (reqs[r].pc = "read" /\ DoneSeen(r)
             /\ reqs[r].body.bytes = "data: {\"text\":\"a\"}\n\ndata: [DONE]\n\ndata: {\"text\":\"x\"}\n\n")
                => reqs[r].fullText = "a")

\* C22: the error state clears itself.  While the page is mounted, an
\* error state that is set is eventually null again; and the step of the
\* timer, which sets it to null without a capture, changes nothing else.
ErrorAutoClears ==
    /\ [](error # Null => <>(error = Null \/ phase = "unmounted"))
    /\ [][(error # Null /\ error' = Null /\ clicks' = clicks) =>
            UNCHANGED <<loading, response, cameraReady, facingMode, stream,
                        reqs, abortControllerRef>>]_vars

\* C22, its case: the failure of a read was reported next to the text
\* "Hel", and the timer has cleared it since: the text is still shown.
ReadFailureCleared ==
    /\ Len(reqs) = 1 /\ reqs[1].pc = "done" /\ ~reqs[1].aborted
    /\ phase = "mounted" /\ clicks = 1
    /\ \A c \in DOMAIN calls : calls[c].got # "failed"
    /\ response = "Hel" /\ error = Null /\ ~loading

\* C23: a superseded request leaves the flags alone.  No step of a request
\* that is not the latest changes loading or error, and while the latest
\* request is in flight and not cancelled, loading is true.
StaleFlagsIsolated ==
    /\ [][\A a \in DOMAIN reqs :
            (a < Len(reqs) /\ reqs'[a] # reqs[a])
                => loading' = loading /\ error' = error]_vars
    /\ [](\A b \in DOMAIN reqs :
            (phase = "mounted" /\ b = Len(reqs) /\ InFlight(b)
             /\ ~reqs[b].aborted) => loading)

\* C23, its case: request A had received a response that is not ok and
\* still awaits its body when request B, which superseded it, has
\* displayed text: loading is true and no error is shown.
SupersededAwaitsErrorBody ==
    /\ Len(reqs) = 2
    /\ reqs[1].aborted /\ reqs[1].pc = "json"
    /\ ~reqs[2].aborted /\ reqs[2].pc = "read" /\ reqs[2].fullText = "Hel"
    /\ loading /\ error = Null

\* C24: whenever the camera is ready, facingMode is the facing that was
\* asked for in the getUserMedia call whose stream the video element shows.
FacingConsistent ==
    (cameraReady /\ srcObject # 0) => calls[srcObject].facing = facingMode

\* C25: for a frame whose sides are at least 1, the canvas of a capture
\* has a width and a height of at least 1 and at most 1920.
CanvasWithinBounds ==
    (Len(reqs) > 0 /\ video.width >= 1 /\ video.height >= 1) =>
        /\ canvas.width \in 1..1920
        /\ canvas.height \in 1..1920

====
